---- MODULE Spec2Model ----
(***************************************************************************)
(* WildMIDI player audio output back ends:                                 *)
(*   out_dart.c   OS/2 DART   (src/unnamed/part_000)                       *)
(*   out_dossb.c  DOS SoundBlaster (src/unnamed/part_001)                  *)
(*   out_alsa.c   ALSA        (src/include/wildmidi_lib.h, lines 79-221)   *)
(* Each back end keeps its state in file-scope statics; the model keeps    *)
(* one variable per static, plus the state of the OS service or hardware   *)
(* the back end talks to.  Each back end has its own specification         *)
(* (SpecDart, SpecSB, SpecSBConv, SpecAlsa) over the same variables.       *)
(***************************************************************************)
EXTENDS Integers, Sequences, FiniteSets, TLC

VARIABLES
    \* ---- out_dart.c statics
    DeviceID,      \* static ULONG DeviceID
    bsize,         \* static ULONG bsize
    next,          \* static short next
    ready,         \* static short ready
    idx,           \* static int idx (local static of write_dart_output)
    pBuffer0,      \* MixBuffers[0].pBuffer is non-NULL (the marker)
    bufLen,        \* MixBuffers[i].ulBufferLength
    bufMem,        \* contents of MixBuffers[i].pBuffer, as segments
    \* ---- OS/2 side
    mutexOwner,    \* who holds dart_mutex: "none", "writer", "callback"
    mtxHeld,       \* mutex semaphores created and not closed
    osDevOpen,     \* the amp-mixer device is open
    osPool,        \* the MCI buffer pool is allocated
    mixq,          \* slots handed to pmixWrite, completion not yet signalled
    sink,          \* bytes handed to the mixer, in submission order
    \* ---- the two execution contexts
    dartPc,        \* position of the caller's thread inside write_dart_output
    wsize,         \* output_size of the write in progress
    wreg,          \* register holding `ready` during the writer's ready--
    cbPc,          \* position of the DART thread inside OS2_Dart_UpdateBuffers
    creg,          \* register holding `ready` during the callback's ready++
    \* ---- history of the DART calls
    dartLast,      \* the last driver call that returned, with its outcome
    closeCmds,     \* MCI commands the last close_dart_output issued
    copyHazard,    \* a memcpy went into a slot the mixer still owned
    overrun,       \* a memcpy went past the end of a slot
    payloads,      \* payloads of the writes that returned, in order
    nWrites,       \* write calls made (bounded)
    nOpens,        \* open calls made (bounded)
    \* ---- out_alsa.c statics
    pcm,             \* static snd_pcm_t *pcm: 0 is NULL, else the stream's id
    alsa_first_time, \* static int alsa_first_time
    \* ---- ALSA side
    pcmState,        \* snd_pcm_state(pcm)
    alsaOpened,      \* streams snd_pcm_open has opened so far (ids 1..n)
    alsaCloseLog,    \* the handles passed to snd_pcm_close, in order
    alsaStarted,     \* snd_pcm_start was called during the current write
    \* ---- write_alsa_output in progress
    alsaPc,          \* "idle" or "loop"
    output_size,     \* bytes left to send
    output_off,      \* output_data - data
    alsaSize,        \* the output_size the caller passed
    alsaAccepted,    \* offsets of the payload bytes snd_pcm_writei accepted
    alsaRearmed,     \* the XRUN path ran during the current write
    alsaLast,        \* the last driver call that returned, with its outcome
    alsaErrState,    \* snd_pcm_state when write returned an error
    nAlsaCalls,      \* driver calls made (bounded)
    alsaKick,        \* the stream in pcm: "none" nothing accepted yet, "fed"
                     \* data accepted and no snd_pcm_start, "started"
    \* ---- out_dossb.c
    buff_tail,     \* static unsigned int buff_tail
    sbCaps,        \* sb.caps: the flags among "16BITS", "STEREO"
    sbState,       \* "closed", or "open" (speaker on, cyclic DMA running)
    dmaHw,         \* the position the DMA controller is reading at
    sbPc,          \* "idle", or "loop" inside write_sb_output
    sbSiz,         \* siz of write_sb_output (bytes left)
    sbOff,         \* data - the caller's buffer
    sbTotal,       \* siz after the conversion, at the start of the loop
    sbEntryTail,   \* buff_tail when write_sb_output was entered
    sbLog,         \* the memcpy's of the current write: [dst, src, len]
    sbPass,        \* the last write_sb_common: tail and hw before, ret, copied
    sbLast,        \* the last driver call that returned, with its outcome
    nSbCalls,      \* driver calls made (bounded)
    sbRing,        \* sb.dma_buff->linear as segments [kind, len]: "stale",
                   \* "pcm", "fill00", "fill80"
    sbPauseTail,   \* buff_tail at the pause_sb_output that no write has
                   \* followed yet, else -1
    \* ---- out_dossb.c, the conversion in write_sb_output
    convCaps,      \* sb.caps of the card converted for
    convOrig,      \* the int16_t samples the caller passed
    convMem,       \* the caller's buffer, byte by byte
    convSiz,       \* siz
    convI,         \* i
    convSrc,       \* src - (int16_t *)data
    convDst,       \* dst - (uint8_t *)data
    convOob,       \* a store landed behind the end of the buffer
    convReadOob,   \* a sample was read from behind the end of the buffer
    convIter,      \* passes of the conversion loop made
    convOut,       \* the siz bytes at data handed on to write_sb_common
    convPc,        \* "idle", "call", "stereo8", "mono8", "convert_done", "done"
    \* ---- out_dart.c, the slot size computed in open_dart_output
    sizeRate,      \* *rate
    sizeBsize,     \* bsize
    sizePc         \* "idle", "call", "done"

dartVars == <<DeviceID, bsize, next, ready, idx, pBuffer0, bufLen, bufMem,
              mutexOwner, mtxHeld, osDevOpen, osPool, mixq, sink,
              dartPc, wsize, wreg, cbPc, creg,
              dartLast, closeCmds, copyHazard, overrun,
              payloads, nWrites, nOpens>>

alsaVars == <<pcm, alsa_first_time, pcmState, alsaOpened, alsaCloseLog,
              alsaStarted, alsaPc, output_size, output_off, alsaSize,
              alsaAccepted, alsaRearmed, alsaLast, alsaErrState, nAlsaCalls, alsaKick>>

sbVars == <<buff_tail, sbCaps, sbState, dmaHw, sbPc, sbSiz, sbOff, sbTotal,
            sbEntryTail, sbLog, sbPass, sbLast, nSbCalls,
           sbRing, sbPauseTail>>

convVars == <<convCaps, convOrig, convMem, convSiz, convI, convSrc, convDst,
              convOob, convOut, convPc,
              convReadOob, convIter>>

sizeVars == <<sizeRate, sizeBsize, sizePc>>

vars == <<dartVars, alsaVars, sbVars, convVars, sizeVars>>

\* ------------------------------------------------------------------ bounds
MaxDartWrites == 4
MaxDartOpens  == 2
MaxAlsaCalls  == 5
MaxAlsaBytes  == 9
MaxSbCalls    == 4
DmaSize       == 1024    \* sb.dma_buff->size, what sb_query_dma reports
DmaGrain      == 128     \* the DMA positions looked at are multiples of it

\* ------------------------------------------------------------- out_dart.c
BUFFERCOUNT == 4

\* Requested sample rates (*rate) and write sizes (output_size), in bytes.
DartRates  == {4000, 8000}
DartWrites == {1500, 3000}

Min(a, b) == IF a < b THEN a ELSE b
Max(a, b) == IF a > b THEN a ELSE b

RECURSIVE Pow2(_)
Pow2(n) == IF n = 0 THEN 1 ELSE 2 * Pow2(n - 1)

\* bsize & (1 << i)
BitSet(x, i) == (x \div Pow2(i)) % 2 = 1

\* for (i = 15; i >= 12; i--) if (bsize & (1 << i)) break;   -> final i
RECURSIVE TopBit(_, _)
TopBit(x, i) == IF i >= 12
                THEN IF BitSet(x, i) THEN i ELSE TopBit(x, i - 1)
                ELSE i

\* the size open_dart_output computes for a slot: rate >> 2, << 1, << 1, the
\* bit scan and the cap (the rates drawn are far below 2^30, so the ULONG
\* shifts do not wrap)
ComputeBsize(rate) ==
    LET b0 == ((rate \div 4) * 2) * 2
        b1 == Pow2(TopBit(b0, 15))
    IN  IF b1 > 65536 THEN 65536 ELSE b1

\* ---- slot memory as a sequence of segments [w, len]: len bytes of write
\* number w (in payload order from its first byte), or of a filler.
Zero    == 0      \* memset(.., 0, ..)
Garbage == -1     \* bytes nobody wrote: fresh, stale or foreign memory

Seg(w, n) == [w |-> w, len |-> n]

RECURSIVE SegLen(_)
SegLen(m) == IF m = <<>> THEN 0 ELSE Head(m).len + SegLen(Tail(m))

\* the first n bytes of m, without padding
RECURSIVE Take(_, _)
Take(m, n) ==
    IF n <= 0 \/ m = <<>> THEN <<>>
    ELSE IF Head(m).len <= n
         THEN <<Head(m)>> \o Take(Tail(m), n - Head(m).len)
         ELSE <<Seg(Head(m).w, n)>>

\* the n bytes found at the start of a buffer holding m: what lies past the
\* bytes written is whatever the memory held
Prefix(m, n) ==
    LET t == Take(m, n)
    IN  IF SegLen(t) < n THEN t \o <<Seg(Garbage, n - SegLen(t))>> ELSE t

\* memcpy(&pBuffer[at], data, n) into a slot of cap bytes: the bytes that
\* land inside the slot
Memcpy(m, cap, at, w, n) ==
    LET room == Max(0, Min(n, cap - at))
    IN  Prefix(m, Min(at, cap)) \o (IF room > 0 THEN <<Seg(w, room)>> ELSE <<>>)

Range(s) == {s[i] : i \in DOMAIN s}

\* ---- the mixer events DART delivers to pmixEvent during playback
MIX_WRITE_COMPLETE == 2
MIX_STREAM_ERROR   == 128
NO_ERROR           == 0
ERROR_DEVICE_UNDERRUN == 5626
MixEvents == { <<NO_ERROR, MIX_WRITE_COMPLETE>>,
               <<ERROR_DEVICE_UNDERRUN, MIX_WRITE_COMPLETE + MIX_STREAM_ERROR>> }

\* the condition of OS2_Dart_UpdateBuffers
CountsAsComplete(ulStatus, ulFlags) ==
    \/ ulFlags = MIX_WRITE_COMPLETE
    \/ /\ ulFlags = MIX_WRITE_COMPLETE + MIX_STREAM_ERROR
       /\ ulStatus = ERROR_DEVICE_UNDERRUN

DartInit ==
    /\ DeviceID = 0
    /\ bsize = 16
    /\ next = 2
    /\ ready = 1
    /\ idx = 0
    /\ pBuffer0 = FALSE
    /\ bufLen = [i \in 0..(BUFFERCOUNT - 1) |-> 0]
    /\ bufMem = [i \in 0..(BUFFERCOUNT - 1) |-> <<>>]
    /\ mutexOwner = "none"
    /\ mtxHeld = 0
    /\ osDevOpen = FALSE
    /\ osPool = FALSE
    /\ mixq = <<>>
    /\ sink = <<>>
    /\ dartPc = "idle"
    /\ wsize = 0
    /\ wreg = 0
    /\ cbPc = "idle"
    /\ creg = 0
    /\ dartLast = "none"
    /\ closeCmds = {}
    /\ copyHazard = FALSE
    /\ overrun = FALSE
    /\ payloads = <<>>
    /\ nWrites = 0
    /\ nOpens = 0

\* the device id MCI_OPEN returns in AmpOpenParms.usDeviceID (never 0)
AmpDeviceID == 1

DartFailPoints == {"mutex", "open", "setup", "alloc"}

\* dartLast after an open_dart_output that returned -1
DartFailed == {"open_" \o f : f \in DartFailPoints}

DartQuiet == dartPc = "idle" /\ cbPc = "idle"

\* open_dart_output; fail names the call that fails, "none" for success
open_dart_output(rate, fail) ==
    /\ DartQuiet
    /\ dartLast \in {"none", "close", "close_fail"} \cup DartFailed
    /\ nOpens < MaxDartOpens
    /\ nOpens' = nOpens + 1
    /\ UNCHANGED <<next, ready, idx, mutexOwner, dartPc, wsize, wreg, cbPc,
                   creg, closeCmds, copyHazard, overrun, nWrites>>
    /\ IF fail = "mutex"
       THEN /\ dartLast' = "open_mutex"
            /\ UNCHANGED <<DeviceID, bsize, pBuffer0, bufLen, bufMem, mtxHeld,
                           osDevOpen, osPool, mixq, sink, payloads>>
       ELSE
       /\ mtxHeld' = mtxHeld + 1
       /\ bsize' = ComputeBsize(rate)
       /\ IF fail = "open"
          THEN /\ dartLast' = "open_open"
               /\ pBuffer0' = FALSE
               /\ UNCHANGED <<DeviceID, bufLen, bufMem, osDevOpen, osPool,
                              mixq, sink, payloads>>
          ELSE
          /\ DeviceID' = AmpDeviceID
          /\ IF fail \in {"setup", "alloc"}
             THEN \* MCI_CLOSE, return -1; DeviceID keeps the closed id
                  /\ dartLast' = "open_" \o fail
                  /\ pBuffer0' = FALSE
                  /\ osDevOpen' = FALSE
                  /\ UNCHANGED <<bufLen, bufMem, osPool, mixq, sink, payloads>>
             ELSE /\ dartLast' = "open_ok"
                  /\ osDevOpen' = TRUE
                  /\ osPool' = TRUE
                  /\ pBuffer0' = TRUE
                  /\ bufLen' = [i \in 0..(BUFFERCOUNT - 1) |-> bsize']
                  /\ bufMem' = [i \in 0..(BUFFERCOUNT - 1) |->
                                  IF i \in {0, 1} THEN <<Seg(Zero, bsize')>>
                                  ELSE <<>>]
                  /\ mixq' = <<0, 1>>
                  /\ sink' = <<Seg(Zero, bsize'), Seg(Zero, bsize')>>
                  /\ payloads' = <<>>

DartOpen == \E rate \in DartRates, fail \in DartFailPoints \cup {"none"} :
                open_dart_output(rate, fail)

\* memcpy(&MixBuffers[slot].pBuffer[at], output_data, output_size); idx += ..
DartCopy(slot, at) ==
    /\ bufMem' = [bufMem EXCEPT ![slot] = Memcpy(@, bsize, at, nWrites', wsize')]
    /\ idx' = at + wsize'
    /\ copyHazard' = (copyHazard \/ slot \in Range(mixq))
    /\ overrun' = (overrun \/ at + wsize' > bsize)
    /\ payloads' = Append(payloads, Seg(nWrites', wsize'))
    /\ dartLast' = "write"

\* write_dart_output entry: the test of line 164 and, when the data fits,
\* the copy of lines 184-186
DartWriteCall(size) ==
    /\ dartPc = "idle"
    /\ dartLast \in {"open_ok", "write"}
    /\ nWrites < MaxDartWrites
    /\ nWrites' = nWrites + 1
    /\ wsize' = size
    /\ IF idx + size > bsize
       THEN /\ dartPc' = "request"
            /\ UNCHANGED <<bufMem, idx, copyHazard, overrun, payloads,
                           dartLast>>
       ELSE /\ dartPc' = "idle"
            /\ DartCopy(next, idx)
    /\ UNCHANGED <<DeviceID, bsize, next, ready, pBuffer0, bufLen, mutexOwner,
                   mtxHeld, osDevOpen, osPool, mixq, sink, wreg, cbPc, creg,
                   closeCmds, nOpens>>

DartWrite == \E size \in DartWrites : DartWriteCall(size)

\* DosRequestMutexSem(dart_mutex, SEM_INDEFINITE_WAIT) in the wait loop
DartWriterRequest ==
    /\ dartPc = "request"
    /\ mutexOwner = "none"
    /\ mutexOwner' = "writer"
    /\ dartPc' = "check"
    /\ UNCHANGED <<DeviceID, bsize, next, ready, idx, pBuffer0, bufLen, bufMem,
                   mtxHeld, osDevOpen, osPool, mixq, sink, wsize, wreg, cbPc,
                   creg, dartLast, closeCmds, copyHazard,
                   overrun, payloads, nWrites, nOpens>>

\* if (ready != 0) { release; break; }  release; DosSleep(20);
DartWriterCheck ==
    /\ dartPc = "check"
    /\ mutexOwner' = "none"
    /\ dartPc' = IF ready # 0 THEN "submit" ELSE "request"
    /\ UNCHANGED <<DeviceID, bsize, next, ready, idx, pBuffer0, bufLen, bufMem,
                   mtxHeld, osDevOpen, osPool, mixq, sink, wsize, wreg, cbPc,
                   creg, dartLast, closeCmds, copyHazard,
                   overrun, payloads, nWrites, nOpens>>

\* MixBuffers[next].ulBufferLength = idx; pmixWrite(.., &MixBuffers[next], 1);
\* and the load of `ready` that starts ready--
DartWriterSubmit ==
    /\ dartPc = "submit"
    /\ bufLen' = [bufLen EXCEPT ![next] = idx]
    /\ mixq' = Append(mixq, next)
    /\ sink' = sink \o Prefix(bufMem[next], idx)
    /\ wreg' = ready
    /\ dartPc' = "store"
    /\ UNCHANGED <<DeviceID, bsize, next, ready, idx, pBuffer0, bufMem,
                   mutexOwner, mtxHeld, osDevOpen, osPool, wsize, cbPc, creg,
                   dartLast, closeCmds, copyHazard, overrun,
                   payloads, nWrites, nOpens>>

\* the value ready-- stores
DartDecrement(r) == r - 1

\* the slot that follows slot n
NextSlot(n) == IF n + 1 = BUFFERCOUNT THEN 0 ELSE n + 1

\* the store that ends ready--, then next++, idx = 0, the wrap of next and
\* the copy of lines 184-186
DartWriterStore ==
    /\ dartPc = "store"
    /\ ready' = DartDecrement(wreg)
    /\ next' = NextSlot(next)
    /\ UNCHANGED <<nWrites, wsize>>
    /\ DartCopy(next', 0)
    /\ dartPc' = "idle"
    /\ UNCHANGED <<DeviceID, bsize, pBuffer0, bufLen, mutexOwner, mtxHeld,
                   osDevOpen, osPool, mixq, sink, wreg, cbPc, creg, closeCmds,
                   nOpens>>

\* DART finishes the oldest submitted buffer and calls OS2_Dart_UpdateBuffers
DartCallbackEnter ==
    /\ cbPc = "idle"
    /\ mixq # <<>>
    /\ mixq' = Tail(mixq)
    /\ \E ev \in MixEvents :
          cbPc' = IF CountsAsComplete(ev[1], ev[2]) THEN "request" ELSE "idle"
    /\ UNCHANGED <<DeviceID, bsize, next, ready, idx, pBuffer0, bufLen, bufMem,
                   mutexOwner, mtxHeld, osDevOpen, osPool, sink, dartPc, wsize,
                   wreg, creg, dartLast, closeCmds,
                   copyHazard, overrun, payloads, nWrites, nOpens>>

\* DosRequestMutexSem in the callback, and the load of `ready`
DartCallbackLock ==
    /\ cbPc = "request"
    /\ mutexOwner = "none"
    /\ mutexOwner' = "callback"
    /\ creg' = ready
    /\ cbPc' = "store"
    /\ UNCHANGED <<DeviceID, bsize, next, ready, idx, pBuffer0, bufLen, bufMem,
                   mtxHeld, osDevOpen, osPool, mixq, sink, dartPc, wsize, wreg,
                   dartLast, closeCmds, copyHazard, overrun,
                   payloads, nWrites, nOpens>>

\* the store of ready++ and DosReleaseMutexSem
DartCallbackStore ==
    /\ cbPc = "store"
    /\ ready' = creg + 1
    /\ mutexOwner' = "none"
    /\ cbPc' = "idle"
    /\ UNCHANGED <<DeviceID, bsize, next, idx, pBuffer0, bufLen, bufMem,
                   mtxHeld, osDevOpen, osPool, mixq, sink, dartPc, wsize, wreg,
                   creg, dartLast, closeCmds, copyHazard,
                   overrun, payloads, nWrites, nOpens>>

\* close_dart_output
close_dart_output ==
    /\ DartQuiet
    /\ dartLast \notin {"close", "close_fail"}
    /\ dartLast' = IF dartLast \in DartFailed THEN "close_fail" ELSE "close"
    /\ closeCmds' = (IF pBuffer0 THEN {"MCI_BUFFER"} ELSE {})
                    \cup (IF DeviceID # 0 THEN {"MCI_CLOSE"} ELSE {})
    /\ pBuffer0' = FALSE
    /\ osPool' = IF pBuffer0 THEN FALSE ELSE osPool
    /\ DeviceID' = 0
    /\ osDevOpen' = IF DeviceID # 0 THEN FALSE ELSE osDevOpen
    /\ mixq' = IF DeviceID # 0 THEN <<>> ELSE mixq
    \* the pool's memory is gone, and what the mixer was given is history
    /\ bufMem' = IF pBuffer0 THEN [i \in 0..(BUFFERCOUNT - 1) |-> <<>>]
                 ELSE bufMem
    /\ sink' = <<>>
    /\ payloads' = <<>>
    /\ UNCHANGED <<bsize, next, ready, idx, bufLen, mutexOwner,
                   mtxHeld, dartPc, wsize, wreg, cbPc, creg, copyHazard,
                   overrun, nWrites, nOpens>>

DartNext ==
    \/ DartOpen /\ UNCHANGED <<alsaVars, sbVars, convVars, sizeVars>>
    \/ DartWrite /\ UNCHANGED <<alsaVars, sbVars, convVars, sizeVars>>
    \/ DartWriterRequest /\ UNCHANGED <<alsaVars, sbVars, convVars, sizeVars>>
    \/ DartWriterCheck /\ UNCHANGED <<alsaVars, sbVars, convVars, sizeVars>>
    \/ DartWriterSubmit /\ UNCHANGED <<alsaVars, sbVars, convVars, sizeVars>>
    \/ DartWriterStore /\ UNCHANGED <<alsaVars, sbVars, convVars, sizeVars>>
    \/ DartCallbackEnter /\ UNCHANGED <<alsaVars, sbVars, convVars, sizeVars>>
    \/ DartCallbackLock /\ UNCHANGED <<alsaVars, sbVars, convVars, sizeVars>>
    \/ DartCallbackStore /\ UNCHANGED <<alsaVars, sbVars, convVars, sizeVars>>
    \/ close_dart_output /\ UNCHANGED <<alsaVars, sbVars, convVars, sizeVars>>

\* ------------------------------------------------------------- out_alsa.c
\* snd_pcm_frames_to_bytes for the format open_alsa_output sets:
\* SND_PCM_FORMAT_S16 (2 bytes) times 2 channels
FrameBytes == 4

\* snd_pcm_bytes_to_frames(pcm, n), snd_pcm_frames_to_bytes(pcm, n)
BytesToFrames(n) == n \div FrameBytes
FramesToBytes(n) == n * FrameBytes

AlsaInit ==
    /\ pcm = 0
    /\ alsa_first_time = 1
    /\ pcmState = "none"
    /\ alsaOpened = 0
    /\ alsaCloseLog = <<>>
    /\ alsaStarted = FALSE
    /\ alsaPc = "idle"
    /\ output_size = 0
    /\ output_off = 0
    /\ alsaSize = 0
    /\ alsaAccepted = <<>>
    /\ alsaRearmed = FALSE
    /\ alsaLast = "none"
    /\ alsaErrState = "none"
    /\ nAlsaCalls = 0
    /\ alsaKick = "none"

\* the calls of open_alsa_output that can fail, in order
AlsaFailPoints == {"snd_pcm_open", "hw_params_any", "set_access", "set_format",
                   "set_channels", "set_rate_near", "set_buffer_time_near",
                   "set_period_time_near", "hw_params", "sw_params"}

\* close_alsa_output without `pcm = NULL`
AlsaClose_KeepsHandle(p, log) ==
    IF p = 0 THEN [pcm |-> p, log |-> log]
    ELSE [pcm |-> p, log |-> Append(log, p)]

\* what close_alsa_output does to (pcm, log of snd_pcm_close calls)
AlsaClose(p, log) ==
    IF p = 0 THEN [pcm |-> p, log |-> log]
    ELSE [pcm |-> 0, log |-> Append(log, p)]

\* open_alsa_output; fail names the call that fails, "none" for success.
\* A failing snd_pcm_open leaves *pcmp as it was.
open_alsa_output(fail) ==
    /\ alsaPc = "idle"
    /\ pcm = 0
    /\ nAlsaCalls < MaxAlsaCalls
    /\ nAlsaCalls' = nAlsaCalls + 1
    /\ IF fail = "snd_pcm_open"
       THEN /\ alsaLast' = "open_fail"
            /\ UNCHANGED <<pcm, pcmState, alsaOpened, alsaCloseLog>>
       ELSE /\ alsaOpened' = alsaOpened + 1
            /\ IF fail = "none"
               THEN /\ pcm' = alsaOpened'
                    /\ pcmState' = "PREPARED"
                    /\ alsaLast' = "open_ok"
                    /\ UNCHANGED alsaCloseLog
               ELSE \* goto fail: close_alsa_output(); return -1;
                    /\ pcm' = AlsaClose(alsaOpened', alsaCloseLog).pcm
                    /\ alsaCloseLog' = AlsaClose(alsaOpened', alsaCloseLog).log
                    /\ pcmState' = "none"
                    /\ alsaLast' = "open_fail"
    /\ alsaKick' = IF fail = "none" THEN "none" ELSE alsaKick
    /\ UNCHANGED <<alsa_first_time, alsaStarted, alsaPc, output_size,
                   output_off, alsaSize, alsaAccepted, alsaRearmed,
                   alsaErrState>>

AlsaOpen == \E fail \in AlsaFailPoints \cup {"none"} : open_alsa_output(fail)

\* close_alsa_output
close_alsa_output ==
    /\ alsaPc = "idle"
    /\ nAlsaCalls < MaxAlsaCalls
    /\ nAlsaCalls' = nAlsaCalls + 1
    /\ pcm' = AlsaClose(pcm, alsaCloseLog).pcm
    /\ alsaCloseLog' = AlsaClose(pcm, alsaCloseLog).log
    /\ pcmState' = IF pcm = 0 THEN pcmState ELSE "none"
    /\ alsaLast' = "close"
    /\ UNCHANGED alsaKick
    /\ UNCHANGED <<alsa_first_time, alsaOpened, alsaStarted, alsaPc,
                   output_size, output_off, alsaSize, alsaAccepted,
                   alsaRearmed, alsaErrState>>

\* write_alsa_output is entered with output_size = size
AlsaWriteCall(size) ==
    /\ alsaPc = "idle"
    /\ pcm # 0
    /\ nAlsaCalls < MaxAlsaCalls
    /\ nAlsaCalls' = nAlsaCalls + 1
    /\ alsaPc' = "loop"
    /\ output_size' = size
    /\ output_off' = 0
    /\ alsaSize' = size
    /\ alsaAccepted' = <<>>
    /\ alsaRearmed' = FALSE
    /\ alsaStarted' = FALSE
    /\ alsaLast' = "writing"
    /\ UNCHANGED alsaKick
    /\ UNCHANGED <<pcm, alsa_first_time, pcmState, alsaOpened, alsaCloseLog,
                   alsaErrState>>

AlsaWrite == \E size \in 0..MaxAlsaBytes : AlsaWriteCall(size)

\* while (output_size > 0) is false: return (0)
AlsaWriteReturn ==
    /\ alsaPc = "loop"
    /\ ~(output_size > 0)
    /\ alsaPc' = "idle"
    /\ alsaLast' = "write_ok"
    /\ UNCHANGED alsaKick
    /\ UNCHANGED <<pcm, alsa_first_time, pcmState, alsaOpened, alsaCloseLog,
                   alsaStarted, output_size, output_off, alsaSize,
                   alsaAccepted, alsaRearmed, alsaErrState, nAlsaCalls>>

\* output_data left where it was
AlsaAdvance_Stuck(off, err) == off

\* output_data after err frames were accepted
AlsaAdvance(off, err) == off + FramesToBytes(err)

\* offsets of the n bytes that start at off
Offsets(off, n) == [i \in 1..n |-> off + i - 1]

\* one pass of the loop in which snd_pcm_writei accepts err frames
AlsaWriteAccept ==
    /\ alsaPc = "loop"
    /\ output_size > 0
    /\ pcmState \in {"PREPARED", "RUNNING"}
    /\ LET frames == BytesToFrames(output_size)
       IN  \E err \in (IF frames = 0 THEN {0} ELSE 1..frames) :
             /\ alsaAccepted' = alsaAccepted
                                \o Offsets(output_off, FramesToBytes(err))
             /\ output_size' = output_size - FramesToBytes(err)
             /\ output_off' = AlsaAdvance(output_off, err)
             /\ IF alsa_first_time # 0
                THEN /\ alsa_first_time' = 0
                     /\ alsaStarted' = TRUE
                     /\ alsaKick' = "started"
                     /\ pcmState' = "RUNNING"
                ELSE /\ UNCHANGED <<alsa_first_time, alsaStarted>>
                     /\ alsaKick' = IF alsaKick = "none" THEN "fed"
                                    ELSE alsaKick
                     \* the default start threshold starts a prepared stream
                     /\ pcmState' = IF err > 0 THEN "RUNNING" ELSE pcmState
    /\ UNCHANGED <<pcm, alsaOpened, alsaCloseLog, alsaPc, alsaSize,
                   alsaRearmed, alsaLast, alsaErrState, nAlsaCalls>>

\* one pass in which snd_pcm_writei fails with the stream in XRUN:
\* snd_pcm_prepare (which may fail too), alsa_first_time = 1, continue
AlsaWriteXrun ==
    /\ alsaPc = "loop"
    /\ output_size > 0
    /\ pcmState = "XRUN"
    /\ \E prepared \in BOOLEAN :
          pcmState' = IF prepared THEN "PREPARED" ELSE "XRUN"
    /\ alsa_first_time' = 1
    /\ alsaRearmed' = TRUE
    /\ UNCHANGED alsaKick
    /\ UNCHANGED <<pcm, alsaOpened, alsaCloseLog, alsaStarted, alsaPc,
                   output_size, output_off, alsaSize, alsaAccepted, alsaLast,
                   alsaErrState, nAlsaCalls>>

\* one pass in which snd_pcm_writei fails and the stream is not in XRUN:
\* return err
AlsaWriteFail ==
    /\ alsaPc = "loop"
    /\ output_size > 0
    /\ pcmState \notin {"PREPARED", "RUNNING", "XRUN"}
    /\ alsaPc' = "idle"
    /\ alsaLast' = "write_err"
    /\ alsaErrState' = pcmState
    /\ UNCHANGED alsaKick
    /\ UNCHANGED <<pcm, alsa_first_time, pcmState, alsaOpened, alsaCloseLog,
                   alsaStarted, output_size, output_off, alsaSize,
                   alsaAccepted, alsaRearmed, nAlsaCalls>>

\* the hardware runs dry: a running stream goes to XRUN
AlsaUnderrun ==
    /\ pcm # 0
    /\ pcmState = "RUNNING"
    /\ pcmState' = "XRUN"
    /\ UNCHANGED alsaKick
    /\ UNCHANGED <<pcm, alsa_first_time, alsaOpened, alsaCloseLog, alsaStarted,
                   alsaPc, output_size, output_off, alsaSize, alsaAccepted,
                   alsaRearmed, alsaLast, alsaErrState, nAlsaCalls>>

\* the system suspends the device, or it is unplugged
AlsaSuspend ==
    /\ pcm # 0
    /\ pcmState \in {"PREPARED", "RUNNING", "XRUN"}
    /\ \E st \in {"SUSPENDED", "DISCONNECTED"} : pcmState' = st
    /\ UNCHANGED alsaKick
    /\ UNCHANGED <<pcm, alsa_first_time, alsaOpened, alsaCloseLog, alsaStarted,
                   alsaPc, output_size, output_off, alsaSize, alsaAccepted,
                   alsaRearmed, alsaLast, alsaErrState, nAlsaCalls>>

AlsaNext ==
    \/ AlsaOpen /\ UNCHANGED <<dartVars, sbVars, convVars, sizeVars>>
    \/ close_alsa_output /\ UNCHANGED <<dartVars, sbVars, convVars, sizeVars>>
    \/ AlsaWrite /\ UNCHANGED <<dartVars, sbVars, convVars, sizeVars>>
    \/ AlsaWriteReturn /\ UNCHANGED <<dartVars, sbVars, convVars, sizeVars>>
    \/ AlsaWriteAccept /\ UNCHANGED <<dartVars, sbVars, convVars, sizeVars>>
    \/ AlsaWriteXrun /\ UNCHANGED <<dartVars, sbVars, convVars, sizeVars>>
    \/ AlsaWriteFail /\ UNCHANGED <<dartVars, sbVars, convVars, sizeVars>>
    \/ AlsaUnderrun /\ UNCHANGED <<dartVars, sbVars, convVars, sizeVars>>
    \/ AlsaSuspend /\ UNCHANGED <<dartVars, sbVars, convVars, sizeVars>>

\* ------------------------------------------------------------ out_dossb.c
\* dma_pos &= ~255
DmaAlign == 256
AlignDown(pos) == pos - (pos % DmaAlign)

\* the cards: SB16, SB Pro, SB
SbCards == { {"16BITS", "STEREO"}, {"STEREO"}, {} }

\* siz values the player passes to write_sb_output
SbWrites == {300, 2048}

\* the DMA positions the model lets sb_query_dma see
DmaPositions == {p \in 0..(DmaSize - 1) : p % DmaGrain = 0}

\* ---- the DMA buffer as a sequence of segments [kind, len]
RingSeg(kind, n) == [kind |-> kind, len |-> n]

\* the first n bytes of ring r, and what follows them
RECURSIVE RingTake(_, _)
RingTake(r, n) ==
    IF n <= 0 \/ r = <<>> THEN <<>>
    ELSE IF Head(r).len <= n
         THEN <<Head(r)>> \o RingTake(Tail(r), n - Head(r).len)
         ELSE <<RingSeg(Head(r).kind, n)>>

RECURSIVE RingDrop(_, _)
RingDrop(r, n) ==
    IF n <= 0 \/ r = <<>> THEN r
    ELSE IF Head(r).len <= n
         THEN RingDrop(Tail(r), n - Head(r).len)
         ELSE <<RingSeg(Head(r).kind, Head(r).len - n)>> \o Tail(r)

\* neighbours of one kind written as one segment
RECURSIVE RingNorm(_)
RingNorm(r) ==
    IF Len(r) < 2 THEN r
    ELSE IF r[1].kind = r[2].kind
         THEN RingNorm(<<RingSeg(r[1].kind, r[1].len + r[2].len)>>
                       \o SubSeq(r, 3, Len(r)))
         ELSE <<r[1]>> \o RingNorm(Tail(r))

\* memcpy / memset of n bytes of one kind at linear + dst
RingStore(r, dst, n, kind) ==
    IF n <= 0 THEN r
    ELSE RingNorm(RingTake(r, dst) \o <<RingSeg(kind, n)>>
                  \o RingDrop(r, dst + n))

\* the ring after the memcpy's of one write_sb_common
RECURSIVE RingCopied(_, _)
RingCopied(r, copies) ==
    IF copies = <<>> THEN r
    ELSE RingCopied(RingStore(r, Head(copies).dst, Head(copies).len, "pcm"),
                    Tail(copies))

\* memset to 0 on every card
SbSilence_Zero(caps) == "fill00"

\* the byte pause_sb_output fills with: 0 for 16 bit, 0x80 for 8 bit
SbSilence(caps) == IF "16BITS" \in caps THEN "fill00" ELSE "fill80"

SbInit ==
    /\ buff_tail = 0
    /\ sbCaps = {}
    /\ sbState = "closed"
    /\ dmaHw = 0
    /\ sbPc = "idle"
    /\ sbSiz = 0
    /\ sbOff = 0
    /\ sbTotal = 0
    /\ sbEntryTail = 0
    /\ sbLog = <<>>
    /\ sbPass = [tail |-> 0, hw |-> 0, ret |-> 0, copied |-> 0]
    /\ sbLast = "none"
    /\ nSbCalls = 0
    /\ sbRing = <<RingSeg("stale", DmaSize)>>
    /\ sbPauseTail = -1

\* one memcpy(sb.dma_buff->linear + dst, data + src, len)
Copy(dst, src, len) == [dst |-> dst, src |-> src, len |-> len]

\* the second memcpy reading from the start of data again
SbSecondSrc_NoAdvance(cnt) == 0

\* data = (char *)data + cnt, before the second memcpy
SbSecondSrc(cnt) == cnt

\* no test of buff_tail against dma_pos
SbNothingToMix_Never(tail, dma_pos) == FALSE

\* if (buff_tail == dma_pos) return 0;
SbNothingToMix(tail, dma_pos) == tail = dma_pos

\* write_sb_common(data, siz) with buff_tail = tail, and dma_size, dma_pos as
\* sb_query_dma reports them: the new buff_tail, the value returned and the
\* memcpy's made (src counted from data)
write_sb_common(tail, siz, dma_size, pos) ==
    LET dma_pos == AlignDown(pos)
    IN  IF SbNothingToMix(tail, dma_pos)
        THEN [tail |-> tail, ret |-> 0, copies |-> <<>>]
        ELSE IF dma_pos > tail
        THEN LET cnt == Min(dma_pos - tail, siz)
                 t1  == tail + cnt
             IN  [tail |-> IF t1 >= dma_size THEN 0 ELSE t1,
                  ret |-> cnt,
                  copies |-> <<Copy(tail, 0, cnt)>>]
        ELSE LET cnt  == Min(dma_size - tail, siz)
                 t1   == tail + cnt
                 siz1 == siz - cnt
             IN  IF siz1 = 0
                 THEN [tail |-> t1, ret |-> cnt,
                       copies |-> <<Copy(tail, 0, cnt)>>]
                 ELSE LET dp == Min(dma_pos, siz1)
                      IN  [tail |-> dp, ret |-> cnt + dp,
                           copies |-> <<Copy(tail, 0, cnt),
                                        Copy(0, SbSecondSrc(cnt), dp)>>]

\* siz after the in-place conversion of write_sb_output
ConvertedSize(caps, siz) ==
    IF "16BITS" \in caps THEN siz
    ELSE IF "STEREO" \in caps THEN siz \div 2
    ELSE siz \div 4

\* open_sb_output; fail names the call that fails, "none" for success
open_sb_output(card, fail) ==
    /\ sbState = "closed"
    /\ sbPc = "idle"
    /\ nSbCalls < MaxSbCalls
    /\ nSbCalls' = nSbCalls + 1
    /\ IF fail = "sb_open"
       THEN /\ sbLast' = "open_fail"
            /\ UNCHANGED <<buff_tail, sbCaps, sbState, dmaHw>>
       ELSE /\ sbCaps' = card
            /\ buff_tail' = 0
            /\ IF fail = "sb_start_dma"
               THEN /\ sbLast' = "open_fail"
                    /\ UNCHANGED <<sbState, dmaHw>>
               ELSE /\ sbLast' = "open_ok"
                    /\ sbState' = "open"
                    /\ dmaHw' = 0
    \* sb_open allocates the DMA buffer: its bytes are whatever was there
    /\ sbRing' = IF fail = "sb_open" THEN sbRing
                 ELSE <<RingSeg("stale", DmaSize)>>
    /\ sbPauseTail' = -1
    /\ UNCHANGED <<sbPc, sbSiz, sbOff, sbTotal, sbEntryTail, sbLog, sbPass>>

SbOpen == \E card \in SbCards, fail \in {"sb_open", "sb_start_dma", "none"} :
              open_sb_output(card, fail)

\* close_sb_output
close_sb_output ==
    /\ sbState = "open"
    /\ sbPc = "idle"
    /\ nSbCalls < MaxSbCalls
    /\ nSbCalls' = nSbCalls + 1
    /\ sbState' = "closed"
    /\ sbLast' = "close"
    /\ sbPauseTail' = -1
    /\ UNCHANGED <<buff_tail, sbCaps, dmaHw, sbPc, sbSiz, sbOff, sbTotal,
                   sbEntryTail, sbLog, sbPass, sbRing>>

\* pause_sb_output
pause_sb_output ==
    /\ sbState = "open"
    /\ sbPc = "idle"
    /\ nSbCalls < MaxSbCalls
    /\ nSbCalls' = nSbCalls + 1
    /\ sbRing' = RingStore(sbRing, 0, DmaSize, SbSilence(sbCaps))
    /\ sbPauseTail' = buff_tail
    /\ sbLast' = "pause"
    /\ UNCHANGED <<buff_tail, sbCaps, sbState, dmaHw, sbPc, sbSiz, sbOff,
                   sbTotal, sbEntryTail, sbLog, sbPass>>

\* resume_sb_output: an empty body
resume_sb_output ==
    /\ sbState = "open"
    /\ sbPc = "idle"
    /\ nSbCalls < MaxSbCalls
    /\ nSbCalls' = nSbCalls + 1
    /\ sbLast' = "resume"
    /\ sbPauseTail' = IF sbLast \in {"pause", "resume"} THEN sbPauseTail
                      ELSE -1
    /\ UNCHANGED <<buff_tail, sbCaps, sbState, dmaHw, sbPc, sbSiz, sbOff,
                   sbTotal, sbEntryTail, sbLog, sbPass, sbRing>>

\* write_sb_output is entered: the conversion leaves siz bytes to deliver
SbWriteCall(siz) ==
    /\ sbState = "open"
    /\ sbPc = "idle"
    /\ nSbCalls < MaxSbCalls
    /\ nSbCalls' = nSbCalls + 1
    /\ sbPc' = "loop"
    /\ sbSiz' = ConvertedSize(sbCaps, siz)
    /\ sbTotal' = ConvertedSize(sbCaps, siz)
    /\ sbOff' = 0
    /\ sbEntryTail' = buff_tail
    /\ sbLog' = <<>>
    /\ sbLast' = "writing"
    /\ sbPauseTail' = IF sbLast \in {"pause", "resume"} THEN sbPauseTail
                      ELSE -1
    /\ UNCHANGED <<buff_tail, sbCaps, sbState, dmaHw, sbPass, sbRing>>

SbWrite == \E siz \in SbWrites : SbWriteCall(siz)

\* the log with one more memcpy: one that moves nothing leaves no trace, one
\* that continues the last one in source and destination extends it
Logged(log, c) ==
    IF c.len = 0 THEN log
    ELSE IF /\ log # <<>>
            /\ log[Len(log)].dst + log[Len(log)].len = c.dst
            /\ log[Len(log)].src + log[Len(log)].len = c.src
         THEN [log EXCEPT ![Len(log)].len = @ + c.len]
         ELSE Append(log, c)

\* the log after the memcpy's of one pass, src counted from the caller's
\* buffer
RECURSIVE Moved(_, _, _)
Moved(log, copies, off) ==
    IF copies = <<>> THEN log
    ELSE Moved(Logged(log, Copy(Head(copies).dst, off + Head(copies).src,
                                Head(copies).len)),
               Tail(copies), off)

RECURSIVE CopiedBytes(_)
CopiedBytes(copies) ==
    IF copies = <<>> THEN 0 ELSE Head(copies).len + CopiedBytes(Tail(copies))

\* data after a pass that returned i
SbAdvance(off, i) == off + i

\* siz left as it was by a pass
SbRemaining_Kept(siz, i) == siz

\* siz -= i
SbRemaining(siz, i) == siz - i

\* one pass of while (1): i = write_sb_common(data, siz);
\* if ((siz -= i) <= 0) return 0; data = (char *)data + i;
SbWritePass ==
    /\ sbPc = "loop"
    /\ LET r == write_sb_common(buff_tail, sbSiz, DmaSize, dmaHw)
       IN  /\ buff_tail' = r.tail
           /\ sbLog' = Moved(sbLog, r.copies, sbOff)
           /\ sbRing' = RingCopied(sbRing, r.copies)
           /\ sbPass' = [tail |-> buff_tail, hw |-> dmaHw, ret |-> r.ret,
                         copied |-> CopiedBytes(r.copies)]
           /\ sbSiz' = SbRemaining(sbSiz, r.ret)
           /\ IF SbRemaining(sbSiz, r.ret) <= 0
              THEN /\ sbPc' = "idle"
                   /\ sbLast' = "write_ok"
                   /\ UNCHANGED sbOff
              ELSE /\ sbOff' = SbAdvance(sbOff, r.ret)
                   /\ UNCHANGED <<sbPc, sbLast>>
    /\ UNCHANGED <<sbCaps, sbState, dmaHw, sbTotal, sbEntryTail, nSbCalls,
                   sbPauseTail>>

\* the DMA controller plays on, wrapping at the end of the buffer: by the
\* next look it can be at any other position
SbDmaAdvance ==
    /\ sbState = "open"
    /\ \E p \in DmaPositions \ {dmaHw} : dmaHw' = p
    /\ UNCHANGED <<buff_tail, sbCaps, sbState, sbPc, sbSiz, sbOff, sbTotal,
                   sbEntryTail, sbLog, sbPass, sbLast, nSbCalls, sbRing,
                   sbPauseTail>>

SbNext ==
    \/ SbOpen /\ UNCHANGED <<dartVars, alsaVars, convVars, sizeVars>>
    \/ close_sb_output /\ UNCHANGED <<dartVars, alsaVars, convVars, sizeVars>>
    \/ pause_sb_output /\ UNCHANGED <<dartVars, alsaVars, convVars, sizeVars>>
    \/ resume_sb_output /\ UNCHANGED <<dartVars, alsaVars, convVars, sizeVars>>
    \/ SbWrite /\ UNCHANGED <<dartVars, alsaVars, convVars, sizeVars>>
    \/ SbWritePass /\ UNCHANGED <<dartVars, alsaVars, convVars, sizeVars>>
    \/ SbDmaAdvance /\ UNCHANGED <<dartVars, alsaVars, convVars, sizeVars>>

\* ------------------------------------------------------- specifications
\* ------------------------------------------------ SoundBlaster, conversion
\* the samples libWildMidi hands to write_sb_output, and how many of them
MaxConvSamples == 4

ConvSamples == {-32768, -1000, -1, 1000, 32767}

ConvInputs == UNION {[1..n -> ConvSamples] : n \in 0..MaxConvSamples}

\* an int16_t as it lies in memory, low byte first
SampleBytes(s) == <<s % 256, (s \div 256) % 256>>

RECURSIVE ToBytes(_)
ToBytes(ss) == IF ss = <<>> THEN <<>>
               ELSE SampleBytes(Head(ss)) \o ToBytes(Tail(ss))

\* *src for the int16_t at sample index k of the buffer
ReadS16(mem, k) ==
    LET u == mem[2 * k + 2] * 256 + mem[2 * k + 1]
    IN  IF u >= 32768 THEN u - 65536 ELSE u

\* >> of a negative int dividing toward zero
Shr_Trunc(v, n) == IF v < 0 THEN -((-v) \div Pow2(n)) ELSE v \div Pow2(n)

\* >> on an int: the arithmetic shift
Shr(v, n) == v \div Pow2(n)

\* the store through uint8_t *dst
U8(v) == v % 256

ConvIdle ==
    /\ convCaps = {}
    /\ convOrig = <<>>
    /\ convMem = <<>>
    /\ convSiz = 0
    /\ convI = 0
    /\ convSrc = 0
    /\ convDst = 0
    /\ convOob = FALSE
    /\ convReadOob = FALSE
    /\ convIter = 0
    /\ convOut = <<>>
    /\ convPc = "idle"

\* a card and a buffer of samples about to be passed to write_sb_output
ConvDraw ==
    /\ convCaps \in SbCards
    /\ convOrig \in ConvInputs
    /\ convMem = ToBytes(convOrig)
    /\ convSiz = Len(convMem)
    /\ convI = 0
    /\ convSrc = 0
    /\ convDst = 0
    /\ convOob = FALSE
    /\ convReadOob = FALSE
    /\ convIter = 0
    /\ convOut = <<>>
    /\ convPc = "call"

\* entry of write_sb_output: the branch on sb.caps and the loop's set-up
SbConvertCall ==
    /\ convPc = "call"
    /\ IF "16BITS" \in convCaps
       THEN /\ convPc' = "convert_done"
            /\ UNCHANGED <<convSiz, convI>>
       ELSE IF "STEREO" \in convCaps
       THEN /\ convSiz' = convSiz \div 2
            /\ convI' = convSiz \div 2
            /\ convPc' = "stereo8"
       ELSE /\ convSiz' = convSiz \div 4
            /\ convI' = convSiz \div 4
            /\ convPc' = "mono8"
    /\ convSrc' = 0
    /\ convDst' = 0
    /\ UNCHANGED <<convCaps, convOrig, convMem, convOob, convOut, convReadOob,
                   convIter>>

\* the int16_t at sample index k lies inside the caller's buffer
InsideBuffer(mem, k) == 2 * k + 2 <= Len(mem)

\* *src++ : the sample in the buffer, or whatever lies behind its end
SrcValues(mem, k) ==
    IF InsideBuffer(mem, k) THEN {ReadS16(mem, k)} ELSE ConvSamples

\* *dst++ = v : a store into the buffer, or one behind its end
StoreU8(v) ==
    IF convDst + 1 <= Len(convMem)
    THEN /\ convMem' = [convMem EXCEPT ![convDst + 1] = U8(v)]
         /\ UNCHANGED convOob
    ELSE /\ convOob' = TRUE
         /\ UNCHANGED convMem

\* one pass of for (; i >= 0; --i) in the uint8 stereo branch
SbConvertStereo8 ==
    /\ convPc = "stereo8"
    /\ convI >= 0
    /\ \E v \in SrcValues(convMem, convSrc) : StoreU8(Shr(v, 8) + 128)
    /\ convReadOob' = (convReadOob \/ ~InsideBuffer(convMem, convSrc))
    /\ convIter' = convIter + 1
    /\ convSrc' = convSrc + 1
    /\ convDst' = convDst + 1
    /\ convI' = convI - 1
    /\ UNCHANGED <<convCaps, convOrig, convSiz, convOut, convPc>>

\* one pass of for (; i >= 0; --i) in the uint8 mono branch
SbConvertMono8 ==
    /\ convPc = "mono8"
    /\ convI >= 0
    /\ \E l \in SrcValues(convMem, convSrc) :
         \E r \in SrcValues(convMem, convSrc + 1) :
            StoreU8(Shr(l + r, 9) + 128)
    /\ convReadOob' = (convReadOob \/ ~InsideBuffer(convMem, convSrc + 1))
    /\ convIter' = convIter + 1
    /\ convSrc' = convSrc + 2
    /\ convDst' = convDst + 1
    /\ convI' = convI - 1
    /\ UNCHANGED <<convCaps, convOrig, convSiz, convOut, convPc>>

\* the loop is left with i < 0
SbConvertExit ==
    /\ convPc \in {"stereo8", "mono8"}
    /\ convI < 0
    /\ convPc' = "convert_done"
    /\ UNCHANGED <<convCaps, convOrig, convMem, convSiz, convI, convSrc,
                   convDst, convOob, convOut, convReadOob, convIter>>

\* the while (1) loop hands the first siz bytes at data to write_sb_common
SbConvertDeliver ==
    /\ convPc = "convert_done"
    /\ convOut' = SubSeq(convMem, 1, convSiz)
    /\ convPc' = "done"
    /\ UNCHANGED <<convCaps, convOrig, convMem, convSiz, convI, convSrc,
                   convDst, convOob, convReadOob, convIter>>

SbConvNext ==
    \/ SbConvertCall /\ UNCHANGED <<dartVars, alsaVars, sbVars, sizeVars>>
    \/ SbConvertStereo8 /\ UNCHANGED <<dartVars, alsaVars, sbVars, sizeVars>>
    \/ SbConvertMono8 /\ UNCHANGED <<dartVars, alsaVars, sbVars, sizeVars>>
    \/ SbConvertExit /\ UNCHANGED <<dartVars, alsaVars, sbVars, sizeVars>>
    \/ SbConvertDeliver /\ UNCHANGED <<dartVars, alsaVars, sbVars, sizeVars>>


\* ------------------------------------------------ out_dart.c, slot size
\* the rates asked for are 25, 50, .. up to 25 * MaxRateUnits
MaxRateUnits == 4000

SizeRates == {25 * k : k \in 1..MaxRateUnits}

SizeIdle ==
    /\ sizeRate = 0
    /\ sizeBsize = 16
    /\ sizePc = "idle"

\* open_dart_output about to be called with *rate = sizeRate
SizeDraw ==
    /\ sizeRate \in SizeRates
    /\ sizeBsize = 16
    /\ sizePc = "call"

\* lines 81-92 of open_dart_output
DartComputeSize ==
    /\ sizePc = "call"
    /\ sizeBsize' = ComputeBsize(sizeRate)
    /\ sizePc' = "done"
    /\ UNCHANGED sizeRate

DartSizeNext ==
    DartComputeSize /\ UNCHANGED <<dartVars, alsaVars, sbVars, convVars>>

Init == DartInit /\ AlsaInit /\ SbInit /\ ConvIdle /\ SizeIdle

InitConv == DartInit /\ AlsaInit /\ SbInit /\ ConvDraw /\ SizeIdle

InitSize == DartInit /\ AlsaInit /\ SbInit /\ ConvIdle /\ SizeDraw

SpecDart == Init /\ [][DartNext]_vars
SpecAlsa == Init /\ [][AlsaNext]_vars

\* the steps of the loop of write_alsa_output
AlsaLoopStep ==
    /\ AlsaWriteReturn \/ AlsaWriteAccept \/ AlsaWriteXrun \/ AlsaWriteFail
    /\ UNCHANGED <<dartVars, sbVars, convVars, sizeVars>>

\* a pass after an XRUN in which snd_pcm_prepare succeeds
AlsaRearmOk ==
    /\ AlsaWriteXrun
    /\ pcmState' = "PREPARED"
    /\ UNCHANGED <<dartVars, sbVars, convVars, sizeVars>>

\* the thread inside write_alsa_output keeps running, and the re-arm after
\* an XRUN succeeds
SpecAlsaFair ==
    Init /\ [][AlsaNext]_vars /\ WF_vars(AlsaLoopStep) /\ WF_vars(AlsaRearmOk)
SpecSB   == Init /\ [][SbNext]_vars
SpecSBConv == InitConv /\ [][SbConvNext]_vars
SpecDartSize == InitSize /\ [][DartSizeNext]_vars

\* a pass of the busy loop made while the aligned DMA position differs from
\* buff_tail
SbProgressPass ==
    /\ AlignDown(dmaHw) # buff_tail
    /\ SbWritePass
    /\ UNCHANGED <<dartVars, alsaVars, convVars, sizeVars>>

\* the DMA controller moves on to another 256-byte block
SbDmaLeaveBlock ==
    /\ SbDmaAdvance
    /\ AlignDown(dmaHw') # AlignDown(dmaHw)
    /\ UNCHANGED <<dartVars, alsaVars, convVars, sizeVars>>

\* ENABLED <<SbProgressPass>>_vars: such a pass copies at least one byte or
\* takes buff_tail from dma_size to 0
SbCanProgress == sbPc = "loop" /\ AlignDown(dmaHw) # buff_tail

\* the DMA cursor keeps advancing (WF), and the loop of write_sb_output,
\* which polls without sleeping, looks at it while it is in each block: the
\* last conjunct is SF_vars(SbProgressPass) with ENABLED written out
SpecSBFair ==
    Init /\ [][SbNext]_vars /\ WF_vars(SbDmaLeaveBlock)
         /\ ([]<>SbCanProgress => []<><<SbProgressPass>>_vars)

\* the steps of the thread inside write_dart_output, and of the thread DART
\* runs OS2_Dart_UpdateBuffers on
DartWriterStep ==
    /\ DartWriterRequest \/ DartWriterCheck \/ DartWriterSubmit
       \/ DartWriterStore
    /\ UNCHANGED <<alsaVars, sbVars, convVars, sizeVars>>

DartCallbackStep ==
    /\ DartCallbackEnter \/ DartCallbackLock \/ DartCallbackStore
    /\ UNCHANGED <<alsaVars, sbVars, convVars, sizeVars>>

\* the writer thread keeps running; DART completes every buffer it was given
\* and its callback gets the mutex in the writer's DosSleep(20)
SpecDartFair ==
    Init /\ [][DartNext]_vars /\ WF_vars(DartWriterStep)
         /\ SF_vars(DartCallbackStep)

\* ------------------------------------------------------- claims, DART
\* a successful open_dart_output has returned and no close since
DartOpened == dartLast \in {"open_ok", "write"}

\* neither context is in the middle of `ready--` or `ready++`, nor between a
\* buffer's completion and the callback's increment for it
DartSettled == dartPc \in {"idle", "request", "check"} /\ cbPc = "idle"

\* C1: after a successful open, under any interleaving of writer steps and
\* completion callbacks, `ready` plus the number of slots submitted to the
\* mixer and not yet completed equals BUFFERCOUNT.
C1_ReadyPlusSubmitted ==
    (DartOpened /\ DartSettled) => ready + Len(mixq) = BUFFERCOUNT

\* C2: the slot write_dart_output copies into is never one that was handed
\* to pmixWrite and whose completion callback has not fired yet.
C2_NeverCopyIntoSubmitted == ~copyHazard

\* what the mixer was given after the two priming buffers, followed by the
\* bytes of the current slot below idx
DartDelivered == SubSeq(sink, 3, Len(sink)) \o Prefix(bufMem[next], idx)

\* C3: for every sequence of writes of positive sizes, the bytes submitted
\* after the priming buffers followed by the current slot's bytes below idx
\* are the concatenation of the payloads, in order, nothing lost or doubled.
C3_DeliveredIsPayloads ==
    (DartOpened /\ dartPc = "idle") => DartDelivered = payloads

\* C8: every resource open_dart_output acquired (mutex semaphore, mixer
\* device, buffer pool) is released when close_dart_output has returned and
\* when open_dart_output has returned -1.
C8_NothingHeld ==
    dartLast \in {"close", "close_fail"} \cup DartFailed
        => mtxHeld = 0 /\ ~osDevOpen /\ ~osPool

\* C9: a close_dart_output that follows a failed open_dart_output issues no
\* MCI command: no MCI_CLOSE for a device the open already closed, no
\* MCI_BUFFER deallocation for a pool that was never allocated.
C9_CloseAfterFailedOpenIsNoOp ==
    dartLast = "close_fail" => closeCmds = {}

\* ------------------------------------------------------- claims, ALSA
\* C6: whatever snd_pcm_writei does (full accept, partial accept, failure in
\* XRUN), when write_alsa_output returns 0 the bytes the OS accepted are the
\* caller's payload, each byte once and in order; and a failure in XRUN is
\* never what write_alsa_output returns.
C6_AlsaWriteDelivers ==
    /\ alsaLast = "write_ok" => alsaAccepted = Offsets(0, alsaSize)
    /\ alsaLast = "write_err" => alsaErrState # "XRUN"

\* a write of two frames returned 0 after an XRUN was re-armed on the way
C6_Witness ==
    alsaLast = "write_ok" /\ alsaRearmed /\ alsaSize = 2 * FrameBytes

\* the number of snd_pcm_close calls made on handle id
AlsaCloses(id) == Cardinality({i \in DOMAIN alsaCloseLog : alsaCloseLog[i] = id})

\* C10: every stream snd_pcm_open opened is closed exactly once (all but the
\* one pcm holds, which is not closed yet); snd_pcm_close is never called on
\* NULL; after a failed open and after close pcm is NULL.
C10_AlsaStreamsClosedOnce ==
    /\ pcm \in 0..alsaOpened
    /\ \A id \in 1..alsaOpened : AlsaCloses(id) = IF id = pcm THEN 0 ELSE 1
    /\ \A i \in DOMAIN alsaCloseLog : alsaCloseLog[i] \in 1..alsaOpened
    /\ alsaLast \in {"open_fail", "close"} => pcm = 0

\* two streams were opened and closed, and close was also called on a
\* handle that was already NULL
C10_Witness ==
    /\ alsaLast = "close"
    /\ alsaOpened = 2
    /\ Len(alsaCloseLog) = 2
    /\ nAlsaCalls >= 4

\* ------------------------------------------------ claims, SoundBlaster
\* the free space between buff_tail and the hardware read position, and the
\* region of data written and not yet played that follows it
SbFree(tail, hw) == (hw - tail) % DmaSize

\* C4: for every position the DMA cursor can be at, the bytes one
\* write_sb_common copies never exceed the free space between buff_tail and
\* the hardware read position, so none lands in the region from the read
\* position up to buff_tail.
C4_CopyWithinFreeSpace == sbPass.copied <= SbFree(sbPass.tail, sbPass.hw)

\* the memcpy's of the finished write, taken in order, read the payload from
\* its first byte to its last and store it at consecutive positions modulo
\* dma_size from the tail held on entry, inside the buffer
SbChain ==
    /\ CopiedBytes(sbLog) = sbTotal
    /\ \A i \in DOMAIN sbLog :
          /\ sbLog[i].dst >= 0
          /\ sbLog[i].dst + sbLog[i].len <= DmaSize
          /\ sbLog[i].src = (IF i = 1 THEN 0
                             ELSE sbLog[i - 1].src + sbLog[i - 1].len)
          /\ sbLog[i].dst = (IF i = 1 THEN sbEntryTail % DmaSize
                             ELSE (sbLog[i - 1].dst + sbLog[i - 1].len) % DmaSize)

\* C5: when write_sb_output returns 0, exactly the siz converted bytes were
\* copied to consecutive ring positions modulo dma_size starting at the
\* buff_tail held on entry, in payload order, none skipped or doubled, also
\* across the end of the buffer; and write_sb_common returns the number of
\* bytes it copied.
C5_SbWriteDelivers ==
    /\ sbLast = "write_ok" => SbChain
    /\ sbPass.ret = sbPass.copied

\* a write returned 0 whose copy ran to the end of the buffer and went on at
\* its start
C5_Witness ==
    /\ sbLast = "write_ok"
    /\ Len(sbLog) >= 2
    /\ sbLog[1].dst + sbLog[1].len = DmaSize
    /\ sbLog[2].dst = 0
    /\ sbLog[2].len > 0

\* ------------------------------------------------ claims, conversion
\* C7: the down-conversion is exact for every signed 16-bit stereo input:
\* on 8-bit stereo hardware delivered byte k is ((sample_k >> 8) + 128)
\* truncated to 8 bits and siz bytes yield siz/2 bytes; on 8-bit mono hardware
\* byte k is ((left_k + right_k) >> 9) + 128 truncated to 8 bits and siz bytes
\* yield siz/4 bytes; on 16-bit hardware the data goes through unchanged.
C7_ConversionExact ==
    convPc = "done" =>
        LET siz == 2 * Len(convOrig)
        IN  IF "16BITS" \in convCaps
            THEN convOut = ToBytes(convOrig)
            ELSE IF "STEREO" \in convCaps
            THEN /\ Len(convOut) = siz \div 2
                 /\ \A k \in 1..Len(convOut) :
                       convOut[k] = ((convOrig[k] \div 256) + 128) % 256
            ELSE /\ Len(convOut) = siz \div 4
                 /\ \A k \in 1..Len(convOut) :
                       convOut[k] =
                          (((convOrig[2 * k - 1] + convOrig[2 * k]) \div 512)
                           + 128) % 256

\* the samples 1000, -1000 went through the 8-bit stereo path
C7_Witness ==
    /\ convPc = "done"
    /\ convCaps = {"STEREO"}
    /\ convOrig = <<1000, -1000>>
    /\ convOut = <<131, 124>>

\* ------------------------------------------------ claims, ALSA (start)
\* C11: after every successful open_alsa_output, also one that follows an
\* earlier open/write/close cycle, the first submission the OS accepts is
\* followed by snd_pcm_start on that stream before write_alsa_output returns:
\* no write has returned on a stream that was fed and never started.
C11_FirstWriteStarts == alsaPc = "idle" => alsaKick # "fed"

\* ------------------------------------------------ claims, DART (progress)
\* C12: if the mixer fires the completion callback for every submitted
\* buffer, every call of write_dart_output returns, under any interleaving
\* of writer and callback steps.
C12_WriteReturns == (dartPc # "idle") ~> (dartPc = "idle")

\* ------------------------------------------------ claims, DART (slot size)
\* the largest power of two that is at most x (x >= 1)
RECURSIVE FloorPow2(_)
FloorPow2(x) == IF x < 2 THEN 1 ELSE 2 * FloorPow2(x \div 2)

\* C13: for every requested rate, bsize is the byte size of a quarter second
\* of 16-bit stereo audio, (rate >> 2) << 2, rounded down to the nearest
\* power of two and then capped at 65536.
C13_BsizeIsQuarterSecond ==
    sizePc = "done" =>
        sizeBsize = Min(65536, FloorPow2((sizeRate \div 4) * 4))

\* ------------------------------------------------ claims, SoundBlaster pause
\* C14: after pause_sb_output every byte of the whole DMA buffer holds the
\* silence value of the negotiated depth (0 on 16-bit, 0x80 on 8-bit
\* hardware); the pause leaves buff_tail and the running DMA transfer as
\* they were; resume_sb_output changes no state; and the next
\* write_sb_output copies its data from the unchanged buff_tail on.
C14_PauseSilencesAll ==
    /\ [](sbLast = "pause" =>
            sbRing = <<RingSeg(IF "16BITS" \in sbCaps THEN "fill00"
                               ELSE "fill80", DmaSize)>>)
    /\ []((sbPauseTail >= 0 /\ sbLast \in {"writing", "write_ok"}
            /\ sbLog # <<>>) =>
               sbLog[1].dst = sbPauseTail % DmaSize)
    /\ [][sbLast' = "pause" /\ nSbCalls' # nSbCalls =>
            /\ buff_tail' = buff_tail
            /\ sbState' = sbState
            /\ dmaHw' = dmaHw
            /\ sbCaps' = sbCaps]_vars
    /\ [][sbLast' = "resume" /\ nSbCalls' # nSbCalls =>
            /\ buff_tail' = buff_tail
            /\ sbState' = sbState
            /\ dmaHw' = dmaHw
            /\ sbCaps' = sbCaps
            /\ sbRing' = sbRing
            /\ sbPc' = sbPc]_vars

\* an 8-bit card was paused with buff_tail inside the buffer, and the write
\* that followed has put data over the silence
C14_Witness ==
    /\ sbPauseTail > 0
    /\ "16BITS" \notin sbCaps
    /\ sbLast = "write_ok"
    /\ \E i \in DOMAIN sbRing : sbRing[i].kind = "fill80"
    /\ \E i \in DOMAIN sbRing : sbRing[i].kind = "pcm"

\* ------------------------------------------------ claims, DART (mutex)
\* C15: every read and every write of `ready`, by write_dart_output (the
\* test in the wait loop, the load and the store of ready--) and by
\* OS2_Dart_UpdateBuffers (ready++), happens while the accessing context
\* holds dart_mutex, so the decrement takes exactly one off the counter and
\* the increment adds exactly one to it.
C15_ReadyOnlyUnderMutex ==
    [][/\ (dartPc \in {"check", "submit", "store"} /\ dartPc' # dartPc)
            => mutexOwner = "writer"
       /\ (dartPc = "store" /\ dartPc' # dartPc) => ready' = ready - 1
       /\ (cbPc = "store" /\ cbPc' # cbPc)
            => (mutexOwner = "callback" /\ ready' = ready + 1)]_vars

\* ------------------------------------------------ claims, DART (reopen)
\* C16: every successful open_dart_output, also one that follows earlier
\* writes and a close_dart_output, ends in the initial cursor state: slots 0
\* and 1 submitted, next = 2, idx = 0 and ready = 1.
C16_OpenResetsCursor ==
    [][(dartLast' = "open_ok" /\ nOpens' # nOpens) =>
            /\ mixq' = <<0, 1>>
            /\ next' = 2
            /\ idx' = 0
            /\ ready' = 1]_vars

\* ------------------------------------------------ claims, SoundBlaster tail
\* C17: in every state reached through open_sb_output and write_sb_common
\* calls against any hardware read positions, 0 <= buff_tail < dma_size.
C17_TailInsideBuffer == buff_tail >= 0 /\ buff_tail < DmaSize

\* ------------------------------------------------ claims, SoundBlaster loop
\* C18: a pass of write_sb_common in which the 256-byte-aligned hardware
\* read position equals buff_tail copies nothing, returns 0 and leaves
\* buff_tail unchanged; and if the hardware read cursor keeps advancing,
\* every write_sb_output call eventually returns 0.
C18_IdlePassAndReturn ==
    /\ [][(sbPc = "loop" /\ dmaHw' = dmaHw /\ AlignDown(dmaHw) = buff_tail)
            => /\ buff_tail' = buff_tail
               /\ sbSiz' = sbSiz
               /\ sbRing' = sbRing
               /\ sbLog' = sbLog
               /\ sbPass'.ret = 0
               /\ sbPass'.copied = 0
               /\ sbPc' = "loop"]_vars
    /\ (sbPc = "loop") ~> (sbPc = "idle" /\ sbLast = "write_ok")

\* inside a write that has copied a part of its data, the last pass found
\* the aligned read position on buff_tail and returned 0
C18_Witness ==
    /\ sbPc = "loop"
    /\ sbLog # <<>>
    /\ sbPass.ret = 0
    /\ AlignDown(sbPass.hw) = sbPass.tail
    /\ buff_tail = sbPass.tail

\* ------------------------------------------------ claims, DART (slot end)
\* C19: in every state reached by write_dart_output calls with positive
\* sizes the fill offset satisfies 0 <= idx <= bsize, and no copy has stored
\* at or past offset bsize of the current slot.
C19_IdxWithinSlot ==
    DartOpened => (idx >= 0 /\ idx <= bsize /\ ~overrun)

\* ------------------------------------------------ claims, conversion loops
\* C20: the in-place conversion loops read only samples inside the caller's
\* siz-byte buffer and store only bytes inside it; the 8-bit stereo loop
\* makes exactly siz/2 passes and the 8-bit mono loop exactly siz/4.
C20_ConversionStaysInside ==
    (convPc = "done" /\ "16BITS" \notin convCaps) =>
        /\ ~convReadOob
        /\ ~convOob
        /\ convIter = (IF "STEREO" \in convCaps
                       THEN (2 * Len(convOrig)) \div 2
                       ELSE (2 * Len(convOrig)) \div 4)

\* ------------------------------------------------ claims, ALSA (termination)
\* C21: write_alsa_output terminates for every positive output_size, also
\* one that is not a multiple of the 4-byte frame, when the OS accepts the
\* frames offered and the re-arm after an XRUN succeeds; and every loop pass
\* that does not hit an error strictly decreases the remaining size.
C21_AlsaWriteTerminates ==
    /\ [][(/\ alsaPc = "loop"
           /\ alsaPc' = "loop"
           /\ \/ alsaAccepted' # alsaAccepted
              \/ alsa_first_time # 0 /\ alsa_first_time' = 0)
            => output_size' < output_size]_vars
    /\ (alsaPc = "loop") ~> (alsaPc = "idle")

====
